---------------------------- MODULE Spec2Model ----------------------------
(***************************************************************************)
(* Model of the JarvisMonitor sampling/capture engine of src/Arcmonitor.py. *)
(*                                                                         *)
(* Threads: the three sampling loops (monitor_activities, monitor_system,  *)
(* monitor_videos), two Flask request handlers (the werkzeug server is     *)
(* threaded, so two requests can be served at once), the server thread     *)
(* (run_server) and the main thread, which calls shutdown().               *)
(*                                                                         *)
(* Time is discrete.  Steps of code take no time; time passes only when    *)
(* every thread is sleeping, blocked on a lock or idle (Advance).          *)
(***************************************************************************)
EXTENDS Integers, Sequences, FiniteSets, TLC

\* ---------------------------------------------------------------- constants
SCREENSHOT_INTERVAL_ACTIVE == 30
INACTIVITY_THRESHOLD == 60
VIDEO_INTERVAL == 1800
VIDEO_DURATION == 10
\* time.sleep(1): the disabled backoff of every loop
BACKOFF_SLEEP == 1
\* time.sleep(1) at the end of an activity tick
ACTIVITY_SLEEP == 1
\* time.sleep(5) at the end of a metrics tick
SYSTEM_SLEEP == 5
\* time.sleep(1) at the end of a video tick
VIDEO_SLEEP == 1

\* ------------------------------------------------------------------- bounds
\* steps of the clock in a run
MaxAdvances == 2
\* toggle requests served in a run
MaxToggles == 2
\* injected store failures (an execute or a commit that raises on an open store)
MaxFaults == 1


\* the length of the second-by-second scenarios, in time units
MaxScenarioTime == 75


\* steps of the clock in a run that records a clip
MaxVideoAdvances == 4

\* ------------------------------------------------------------------ threads
Loops == {"act", "sys", "vid"}
Handlers == {"r1", "r2"}
\* self.server_thread, which runs app.run() in run_server
Server == "srv"
Threads == Loops \cup Handlers \cup {Server, "main"}
NoHolder == "nobody"
Tables == {"metrics", "activities", "videos"}

\* self.current_window = ("", "")
NoWindow == <<"", "">>
\* get_active_window() on Windows: (title, "Windows Process"), or the sentinel
\* ("Unknown", "Unknown") when the probe raises
ProbeResults == {<<"Editor", "Windows Process">>, <<"Unknown", "Unknown">>}

VARIABLES
    pc,                  \* position of every thread
    now,                 \* the clock: datetime.now() / time.time()
    wake,                \* per loop: when its current time.sleep ends (0: not sleeping)
    stop_event,
    monitoring_enabled,
    monitoring_lock,     \* holder of self.monitoring_lock
    db_lock,             \* holder of self.db_lock
    db_open,             \* FALSE once self.db.close() has run
    committed,           \* per table: rows committed
    pending,             \* per table: rows inserted in the connection's open transaction
    faults,              \* store failures injected so far
    current_window,
    last_activity,
    last_screenshot,
    last_video,
    tick_now,            \* monitor_activities' local `now`, while the tick uses it
    observed,            \* check_activity's local current_window: what the probe returned
    tmp,                 \* per handler: the flag value read by its flip
    flipped,             \* per handler: the value its own flip wrote
    toggles,             \* toggle requests started
    toggles_done,        \* toggle_monitoring() calls completed
    toggle_done_at,      \* the time the last toggle_monitoring() completed
    checked,             \* per loop: it has read the flag since the last toggle completed
    advances             \* steps of the clock so far

vars == <<pc, now, wake, stop_event, monitoring_enabled, monitoring_lock, db_lock,
          db_open, committed, pending, faults, current_window, last_activity,
          last_screenshot, last_video, tick_now, observed,
          tmp, flipped, toggles, toggles_done, toggle_done_at, checked, advances>>

\* groups of variables, for UNCHANGED
timeVars == <<now, advances>>
ctlVars == <<stop_event, db_open>>
flagVars == <<monitoring_enabled, tmp, flipped, toggles, toggles_done, toggle_done_at>>
storeVars == <<db_lock, committed, pending, faults>>
activityVars == <<current_window, last_activity, last_screenshot, tick_now, observed>>
videoVars == <<last_video>>

\* ---------------------------------------------------------------------- Init
\* JarvisMonitor.__init__: the flag is on, the three timestamps are the
\* construction time, the window is ("", ""), and the threads are started
Init ==
    /\ pc = [t \in Threads |->
               IF t \in Loops THEN "top"
               ELSE IF t = "main" THEN "running"
               ELSE IF t = Server THEN "serving" ELSE "idle"]
    /\ now = 0
    /\ wake = [l \in Loops |-> 0]
    /\ stop_event = FALSE
    /\ monitoring_enabled = TRUE
    /\ monitoring_lock = NoHolder
    /\ db_lock = NoHolder
    /\ db_open = TRUE
    /\ committed = [t \in Tables |-> 0]
    /\ pending = [t \in Tables |-> 0]
    /\ faults = 0
    /\ current_window = NoWindow
    /\ last_activity = 0
    /\ last_screenshot = 0
    /\ last_video = 0
    /\ tick_now = 0
    /\ observed = NoWindow
    /\ tmp = [h \in Handlers |-> TRUE]
    /\ flipped = [h \in Handlers |-> TRUE]
    /\ toggles = 0
    /\ toggles_done = 0
    /\ toggle_done_at = 0
    /\ checked = [l \in Loops |-> TRUE]
    /\ advances = 0

\* -------------------------------------------------------------------- locks
\* a lock that never blocks: `with lock:` entered although another thread is in it
CanAcquire_NeverBlocks(lk) == TRUE

\* Lock.acquire() blocks until the lock is free
CanAcquire(lk) == lk = NoHolder

\* ------------------------------------------------------------ loop skeleton
\* `while not self.stop_event.is_set():` the loop condition, evaluated when an
\* iteration ends: the loop ends, or goes to its flag check
LoopAgain == IF stop_event THEN "done" ELSE "lock"

\* the loop condition when the thread starts
LoopTop(l) ==
    /\ pc[l] = "top"
    /\ pc' = [pc EXCEPT ![l] = LoopAgain]
    /\ UNCHANGED <<wake, monitoring_lock, checked, timeVars, ctlVars, flagVars,
                   storeVars, activityVars, videoVars>>

\* `if (datetime.now() - self.last_video).total_seconds() > VIDEO_INTERVAL:`
VideoDue == now - last_video > VIDEO_INTERVAL

\* where a loop's tick is right after its flag check read 'enabled'.
\* monitor_activities calls check_activity(); monitor_system samples psutil and
\* goes to its insert; monitor_videos calls record_video() when a clip is due
\* and sleeps otherwise
WorkStart(l) ==
    IF l = "act" THEN "probe"
    ELSE IF l = "sys" THEN "db"
    ELSE IF VideoDue THEN "rec" ELSE "sleep"

\* the time.sleep (or the frame loop of record_video) that WorkStart(l) begins
WorkWake(l) ==
    IF l = "vid" THEN (IF VideoDue THEN now + VIDEO_DURATION ELSE now + VIDEO_SLEEP)
    ELSE 0

\* a flag check that does not look at the flag: the tick always goes on to its work
FlagCheck_IgnoresFlag(l) ==
    /\ pc[l] = "lock"
    /\ CanAcquire(monitoring_lock)
    /\ checked' = [checked EXCEPT ![l] = TRUE]
    /\ pc' = [pc EXCEPT ![l] = WorkStart(l)]
    /\ wake' = [wake EXCEPT ![l] = WorkWake(l)]
    /\ UNCHANGED <<monitoring_lock, timeVars, ctlVars, flagVars, storeVars, activityVars,
                   videoVars>>

\* `with self.monitoring_lock: if not self.monitoring_enabled: time.sleep(1); continue`
\* the flag check: acquire the lock and read the flag; disabled: start the
\* 1-unit sleep with the lock held; enabled: leave the with block
FlagCheck(l) ==
    /\ pc[l] = "lock"
    /\ CanAcquire(monitoring_lock)
    /\ checked' = [checked EXCEPT ![l] = TRUE]
    /\ IF monitoring_enabled
         THEN /\ pc' = [pc EXCEPT ![l] = WorkStart(l)]
              /\ wake' = [wake EXCEPT ![l] = WorkWake(l)]
              /\ UNCHANGED monitoring_lock
         ELSE /\ pc' = [pc EXCEPT ![l] = "backoff"]
              /\ monitoring_lock' = l
              /\ wake' = [wake EXCEPT ![l] = now + BACKOFF_SLEEP]
    /\ UNCHANGED <<timeVars, ctlVars, flagVars, storeVars, activityVars, videoVars>>

\* the backoff sleep is over: `continue` leaves the with block (releasing the
\* lock) and evaluates the loop condition
BackoffEnd(l) ==
    /\ pc[l] = "backoff"
    /\ now >= wake[l]
    /\ monitoring_lock' = NoHolder
    /\ wake' = [wake EXCEPT ![l] = 0]
    /\ pc' = [pc EXCEPT ![l] = LoopAgain]
    /\ UNCHANGED <<checked, timeVars, ctlVars, flagVars, storeVars, activityVars,
                   videoVars>>

\* the tick's closing time.sleep is over: the loop condition is evaluated
SleepEnd(l) ==
    /\ pc[l] = "sleep"
    /\ now >= wake[l]
    /\ wake' = [wake EXCEPT ![l] = 0]
    /\ pc' = [pc EXCEPT ![l] = LoopAgain]
    /\ UNCHANGED <<monitoring_lock, checked, timeVars, ctlVars, flagVars, storeVars,
                   activityVars, videoVars>>

\* ------------------------------------------------------------ activity loop
\* the screenshot condition alone, without the inactivity test
CaptureEligible_IgnoresIdle(la) == now - last_screenshot >= SCREENSHOT_INTERVAL_ACTIVE


\* the inactivity test with <= in place of <
CaptureEligible_ThresholdInclusive(la) ==
    /\ now - la <= INACTIVITY_THRESHOLD
    /\ now - last_screenshot >= SCREENSHOT_INTERVAL_ACTIVE

\* the two conditions of monitor_activities, with the tick's `now` and the
\* last_activity the tick's check_activity() left
CaptureEligible(la) ==
    /\ now - la < INACTIVITY_THRESHOLD
    /\ now - last_screenshot >= SCREENSHOT_INTERVAL_ACTIVE

\* the tick ends: time.sleep(1)
ActivitySleep ==
    /\ pc' = [pc EXCEPT !["act"] = "sleep"]
    /\ wake' = [wake EXCEPT !["act"] = now + ACTIVITY_SLEEP]
    /\ tick_now' = 0

\* the rest of the tick after check_activity() returned: `now = datetime.now()`,
\* then the tick captures or sleeps
AfterCheck(la) ==
    IF CaptureEligible(la)
      THEN /\ pc' = [pc EXCEPT !["act"] = "capture"]
           /\ tick_now' = now
           /\ UNCHANGED wake
      ELSE ActivitySleep

\* check_activity(): the probe returned w.  A different identity is stored at
\* once; last_activity is written by the next statement (CheckActivitySet).
CheckActivity(w) ==
    /\ pc["act"] = "probe"
    /\ observed' = w
    /\ IF w # current_window
         THEN /\ current_window' = w
              /\ pc' = [pc EXCEPT !["act"] = "setact"]
              /\ UNCHANGED <<tick_now, wake>>
         ELSE /\ AfterCheck(last_activity)
              /\ UNCHANGED current_window
    /\ UNCHANGED <<monitoring_lock, checked, last_activity, last_screenshot, timeVars,
                   ctlVars, flagVars, storeVars, videoVars>>

\* a check_activity() that stores the new identity and forgets the timestamp
CheckActivitySet_KeepsTimestamp ==
    /\ pc["act"] = "setact"
    /\ AfterCheck(last_activity)
    /\ UNCHANGED <<monitoring_lock, checked, current_window, last_activity,
                   last_screenshot, observed, timeVars, ctlVars, flagVars, storeVars,
                   videoVars>>

\* `self.last_activity = datetime.now(); return True`, then the tick goes on
CheckActivitySet ==
    /\ pc["act"] = "setact"
    /\ last_activity' = now
    /\ AfterCheck(now)
    /\ UNCHANGED <<monitoring_lock, checked, current_window, last_screenshot, observed,
                   timeVars, ctlVars, flagVars, storeVars, videoVars>>


\* a tick that takes the store lock first and captures inside the with block
CaptureOk_InsideStoreLock ==
    /\ pc["act"] = "capture"
    /\ CanAcquire(db_lock)
    /\ db_lock' = "act"
    /\ pc' = [pc EXCEPT !["act"] = "db"]
    /\ UNCHANGED <<wake, monitoring_lock, checked, committed, pending, faults, timeVars,
                   ctlVars, flagVars, activityVars, videoVars>>

\* capture_screenshot() returned a thumbnail: the tick goes on to the insert
CaptureOk ==
    /\ pc["act"] = "capture"
    /\ pc' = [pc EXCEPT !["act"] = "db"]
    /\ UNCHANGED <<wake, monitoring_lock, checked, timeVars, ctlVars, flagVars,
                   storeVars, activityVars, videoVars>>

\* a failed capture after which `self.last_screenshot = now` runs all the same
\* (the assignment one level out of `if b64_img:`)
CaptureFail_AdvancesTimestamp ==
    /\ pc["act"] = "capture"
    /\ last_screenshot' = tick_now
    /\ ActivitySleep
    /\ UNCHANGED <<monitoring_lock, checked, current_window, last_activity, observed,
                   timeVars, ctlVars, flagVars, storeVars, videoVars>>

\* capture_screenshot() caught an exception and returned (None, None, ""):
\* `if b64_img:` skips the insert and the tick sleeps
CaptureFail ==
    /\ pc["act"] = "capture"
    /\ ActivitySleep
    /\ UNCHANGED <<monitoring_lock, checked, current_window, last_activity,
                   last_screenshot, observed, timeVars, ctlVars, flagVars, storeVars,
                   videoVars>>

\* ------------------------------------------------------------------- store
TableOf(l) == IF l = "act" THEN "activities" ELSE IF l = "sys" THEN "metrics" ELSE "videos"


\* a store error that nothing catches: the thread of the loop ends
StoreError_Uncaught(l) ==
    /\ pc' = [pc EXCEPT ![l] = "done"]
    /\ wake' = [wake EXCEPT ![l] = 0]
    /\ last_video' = last_video
    /\ tick_now' = IF l = "act" THEN 0 ELSE tick_now

\* a store call raises inside `with self.db_lock`.  monitor_activities and
\* monitor_system catch it at the end of the tick and evaluate the loop condition
\* without sleeping.  record_video catches it and returns None; monitor_videos
\* then runs `self.last_video = datetime.now()` and time.sleep(1).
StoreError(l) ==
    /\ pc' = [pc EXCEPT ![l] = IF l = "vid" THEN "sleep" ELSE LoopAgain]
    /\ wake' = [wake EXCEPT ![l] = IF l = "vid" THEN now + VIDEO_SLEEP ELSE 0]
    /\ last_video' = IF l = "vid" THEN now ELSE last_video
    /\ tick_now' = IF l = "act" THEN 0 ELSE tick_now

\* `with self.db_lock: self.db.execute(INSERT ...)` succeeds: the row is in the
\* connection's open transaction and the loop still holds the lock
DbInsert(l) ==
    /\ pc[l] = "db"
    /\ CanAcquire(db_lock)
    /\ db_open
    /\ db_lock' = l
    /\ pending' = [pending EXCEPT ![TableOf(l)] = @ + 1]
    /\ pc' = [pc EXCEPT ![l] = "commit"]
    /\ UNCHANGED <<wake, monitoring_lock, checked, committed, faults, timeVars, ctlVars,
                   flagVars, activityVars, videoVars>>

\* the execute raises (closed store, or an injected store failure): the with
\* block releases the lock on the way out
DbInsertFail(l) ==
    /\ pc[l] = "db"
    /\ CanAcquire(db_lock)
    /\ ~db_open \/ faults < MaxFaults
    /\ faults' = IF db_open THEN faults + 1 ELSE faults
    /\ StoreError(l)
    /\ UNCHANGED <<monitoring_lock, checked, db_lock, committed, pending,
                   current_window, last_activity, last_screenshot, observed,
                   timeVars, ctlVars, flagVars>>

\* self.db.commit() on the shared connection commits every pending row
CommitAll ==
    /\ committed' = [t \in Tables |-> committed[t] + pending[t]]
    /\ pending' = [t \in Tables |-> 0]


\* a commit that raises and leaves the store lock held (an acquire()/release()
\* pair in place of the with block)
DbCommitFail_KeepsLock(l) ==
    /\ pc[l] = "commit"
    /\ ~db_open \/ faults < MaxFaults
    /\ faults' = IF db_open THEN faults + 1 ELSE faults
    /\ StoreError(l)
    /\ UNCHANGED <<monitoring_lock, checked, db_lock, committed, pending,
                   current_window, last_activity, last_screenshot, observed,
                   timeVars, ctlVars, flagVars>>

\* the commit raises; the with block releases the lock
DbCommitFail(l) ==
    /\ pc[l] = "commit"
    /\ ~db_open \/ faults < MaxFaults
    /\ faults' = IF db_open THEN faults + 1 ELSE faults
    /\ db_lock' = NoHolder
    /\ StoreError(l)
    /\ UNCHANGED <<monitoring_lock, checked, committed, pending,
                   current_window, last_activity, last_screenshot, observed,
                   timeVars, ctlVars, flagVars>>


\* a tick that commits its row and leaves last_screenshot as it was
ActivityCommit_KeepsLastScreenshot ==
    /\ pc["act"] = "commit"
    /\ db_open
    /\ CommitAll
    /\ db_lock' = NoHolder
    /\ ActivitySleep
    /\ UNCHANGED <<monitoring_lock, checked, faults, current_window, last_activity,
                   last_screenshot, observed, timeVars, ctlVars, flagVars, videoVars>>

\* monitor_activities: commit, leave the with block, `self.last_screenshot = now`,
\* time.sleep(1)
ActivityCommit ==
    /\ pc["act"] = "commit"
    /\ db_open
    /\ CommitAll
    /\ db_lock' = NoHolder
    /\ last_screenshot' = tick_now
    /\ ActivitySleep
    /\ UNCHANGED <<monitoring_lock, checked, faults, current_window, last_activity,
                   observed, timeVars, ctlVars, flagVars, videoVars>>

\* monitor_system: commit, leave the with block, time.sleep(5)
SystemCommit ==
    /\ pc["sys"] = "commit"
    /\ db_open
    /\ CommitAll
    /\ db_lock' = NoHolder
    /\ pc' = [pc EXCEPT !["sys"] = "sleep"]
    /\ wake' = [wake EXCEPT !["sys"] = now + SYSTEM_SLEEP]
    /\ UNCHANGED <<monitoring_lock, checked, faults, timeVars, ctlVars, flagVars,
                   activityVars, videoVars>>

\* --------------------------------------------------------------- video loop
\* monitor_videos after record_video() returned, whatever it returned:
\* `self.last_video = datetime.now()`, then time.sleep(1)
VideoSetLast ==
    /\ last_video' = now
    /\ pc' = [pc EXCEPT !["vid"] = "sleep"]
    /\ wake' = [wake EXCEPT !["vid"] = now + VIDEO_SLEEP]


\* a frame loop that gives up, without a row, when it finds monitoring disabled
RecordDone_AbortsWhenDisabled ==
    /\ pc["vid"] = "rec"
    /\ now >= wake["vid"]
    /\ IF monitoring_enabled
         THEN /\ wake' = [wake EXCEPT !["vid"] = 0]
              /\ pc' = [pc EXCEPT !["vid"] = "db"]
              /\ UNCHANGED videoVars
         ELSE VideoSetLast
    /\ UNCHANGED <<monitoring_lock, checked, timeVars, ctlVars, flagVars, storeVars,
                   activityVars>>

\* record_video: the frame loop ran for VIDEO_DURATION and out.release()
\* finished the file; the insert is next
RecordDone ==
    /\ pc["vid"] = "rec"
    /\ now >= wake["vid"]
    /\ wake' = [wake EXCEPT !["vid"] = 0]
    /\ pc' = [pc EXCEPT !["vid"] = "db"]
    /\ UNCHANGED <<monitoring_lock, checked, timeVars, ctlVars, flagVars, storeVars,
                   activityVars, videoVars>>


\* a record_video whose except branch falls through to the insert
RecordFail_WritesRow ==
    /\ pc["vid"] = "rec"
    /\ wake' = [wake EXCEPT !["vid"] = 0]
    /\ pc' = [pc EXCEPT !["vid"] = "db"]
    /\ UNCHANGED <<monitoring_lock, checked, timeVars, ctlVars, flagVars, storeVars,
                   activityVars, videoVars>>

\* record_video: the capture device or the encoder raises at some point of the
\* recording; record_video() prints and returns None, and monitor_videos goes on
RecordFail ==
    /\ pc["vid"] = "rec"
    /\ VideoSetLast
    /\ UNCHANGED <<monitoring_lock, checked, timeVars, ctlVars, flagVars, storeVars,
                   activityVars>>

\* record_video: commit, leave the with block, `return path`; monitor_videos
\* goes on
VideoCommit ==
    /\ pc["vid"] = "commit"
    /\ db_open
    /\ CommitAll
    /\ db_lock' = NoHolder
    /\ VideoSetLast
    /\ UNCHANGED <<monitoring_lock, checked, faults, timeVars, ctlVars, flagVars,
                   activityVars>>

\* --------------------------------------------------------- request handlers
\* POST /control with action 'toggle' arrives: control_monitoring calls
\* toggle_monitoring()
ToggleStart(h) ==
    /\ pc[h] = "idle"
    /\ toggles < MaxToggles
    /\ toggles' = toggles + 1
    /\ pc' = [pc EXCEPT ![h] = "t_lock"]
    /\ UNCHANGED <<wake, monitoring_lock, checked, monitoring_enabled, tmp, flipped,
                   toggles_done, toggle_done_at, timeVars, ctlVars, storeVars,
                   activityVars, videoVars>>

\* toggle_monitoring: `with self.monitoring_lock:` is entered and the right-hand
\* side `not self.monitoring_enabled` reads the flag
ToggleRead(h) ==
    /\ pc[h] = "t_lock"
    /\ CanAcquire(monitoring_lock)
    /\ monitoring_lock' = h
    /\ tmp' = [tmp EXCEPT ![h] = monitoring_enabled]
    /\ pc' = [pc EXCEPT ![h] = "t_write"]
    /\ UNCHANGED <<wake, checked, monitoring_enabled, flipped, toggles, toggles_done,
                   toggle_done_at, timeVars, ctlVars, storeVars, activityVars, videoVars>>

\* toggle_monitoring: the assignment stores the negation and the with block
\* releases the lock
ToggleWrite(h) ==
    /\ pc[h] = "t_write"
    /\ monitoring_enabled' = ~tmp[h]
    /\ flipped' = [flipped EXCEPT ![h] = ~tmp[h]]
    /\ tmp' = [tmp EXCEPT ![h] = TRUE]
    /\ monitoring_lock' = NoHolder
    /\ toggles_done' = toggles_done + 1
    /\ toggle_done_at' = now
    /\ checked' = [l \in Loops |-> FALSE]
    /\ pc' = [pc EXCEPT ![h] = "t_resp"]
    /\ UNCHANGED <<wake, toggles, timeVars, ctlVars, storeVars, activityVars, videoVars>>

\* jsonify({'status': ...}) renders the boolean
Status(b) == IF b THEN "true" ELSE "false"

\* control_monitoring: `return jsonify({'status': self.monitoring_enabled})`
\* reads the flag again, outside the lock; this is the request's response
Response == Status(monitoring_enabled)

\* the handler sends Response and is free for the next request
ToggleRespond(h) ==
    /\ pc[h] = "t_resp"
    /\ flipped' = [flipped EXCEPT ![h] = TRUE]
    /\ pc' = [pc EXCEPT ![h] = "idle"]
    /\ UNCHANGED <<wake, monitoring_lock, checked, monitoring_enabled, tmp, toggles,
                   toggles_done, toggle_done_at, timeVars, ctlVars, storeVars,
                   activityVars, videoVars>>

\* GET /history arrives: get_activity_history reaches `with self.db_lock:`
HistoryStart(h) ==
    /\ pc[h] = "idle"
    /\ pc' = [pc EXCEPT ![h] = "h_db"]
    /\ UNCHANGED <<wake, monitoring_lock, checked, timeVars, ctlVars, flagVars,
                   storeVars, activityVars, videoVars>>

\* get_activity_history takes the store lock
HistoryAcquire(h) ==
    /\ pc[h] = "h_db"
    /\ CanAcquire(db_lock)
    /\ db_lock' = h
    /\ pc' = [pc EXCEPT ![h] = "h_select"]
    /\ UNCHANGED <<wake, monitoring_lock, checked, committed, pending, faults,
                   timeVars, ctlVars, flagVars, activityVars, videoVars>>

\* get_activity_history runs the SELECT and fetchall (which raise on a closed
\* store), and leaves the with block either way
HistorySelect(h) ==
    /\ pc[h] = "h_select"
    /\ db_lock' = NoHolder
    /\ pc' = [pc EXCEPT ![h] = "idle"]
    /\ UNCHANGED <<wake, monitoring_lock, checked, committed, pending, faults,
                   timeVars, ctlVars, flagVars, activityVars, videoVars>>


\* GET /data arrives: get_system_data samples psutil and is about to build its
\* answer
DataStart(h) ==
    /\ pc[h] = "idle"
    /\ pc' = [pc EXCEPT ![h] = "d_read"]
    /\ UNCHANGED <<wake, monitoring_lock, checked, timeVars, ctlVars, flagVars,
                   storeVars, activityVars, videoVars>>

\* get_system_data reads self.current_window and self.last_activity, with no
\* lock, and returns; here the three reads are one step, the best case
DataRead(h) ==
    /\ pc[h] = "d_read"
    /\ pc' = [pc EXCEPT ![h] = "idle"]
    /\ UNCHANGED <<wake, monitoring_lock, checked, timeVars, ctlVars, flagVars,
                   storeVars, activityVars, videoVars>>

\* check_activity is between its two assignments: current_window is the new
\* identity, last_activity still the time of the previous one
HalfUpdated == pc["act"] = "setact"

\* ----------------------------------------------------------------- shutdown
\* shutdown(): self.stop_event.set()
ShutdownSet ==
    /\ pc["main"] = "running"
    /\ stop_event' = TRUE
    /\ pc' = [pc EXCEPT !["main"] = "closing"]
    /\ UNCHANGED <<wake, monitoring_lock, checked, db_open, timeVars, flagVars,
                   storeVars, activityVars, videoVars>>

\* shutdown(): self.db.close(), without the store lock and without waiting for
\* the loops; rows not yet committed are rolled back
ShutdownClose ==
    /\ pc["main"] = "closing"
    /\ db_open' = FALSE
    /\ pending' = [t \in Tables |-> 0]
    /\ pc' = [pc EXCEPT !["main"] = "done"]
    /\ UNCHANGED <<wake, monitoring_lock, checked, stop_event, db_lock, committed,
                   faults, timeVars, flagVars, activityVars, videoVars>>

\* --------------------------------------------------------------------- time
\* the loop is inside a time.sleep (or the frame loop of record_video)
Sleeping(l) == pc[l] \in {"backoff", "sleep", "rec"}

\* the thread cannot take a step now: it sleeps, waits for a lock, has ended,
\* or is a handler (or the main thread) with no request to serve, or the server
\* thread inside app.run(), which only hands requests to the handlers
Waiting(t) ==
    \/ pc[t] \in {"done", "idle", "running", "serving"}
    \/ t \in Loops /\ Sleeping(t) /\ wake[t] > now
    \/ pc[t] \in {"lock", "t_lock"} /\ ~CanAcquire(monitoring_lock)
    \/ pc[t] \in {"db", "h_db"} /\ ~CanAcquire(db_lock)

Quiescent == \A t \in Threads : Waiting(t)

\* Time passes by d while every thread waits.  A sleeper whose wake-up is
\* reached can go on; d may pass a wake-up, as time.sleep guarantees only a
\* minimum (the host is busy or suspended).
Advance(d) ==
    /\ Quiescent
    /\ \E l \in Loops : Sleeping(l)
    /\ advances < MaxAdvances
    /\ now' = now + d
    /\ advances' = advances + 1
    /\ UNCHANGED <<pc, wake, monitoring_lock, checked, ctlVars, flagVars,
                   storeVars, activityVars, videoVars>>

\* one time unit passes: the shortest sleep of the program
Tick == Advance(BACKOFF_SLEEP)

\* longer stretches: the intervals the loops compare against
StallSteps == {VIDEO_DURATION, SCREENSHOT_INTERVAL_ACTIVE, VIDEO_INTERVAL + 1}

\* --------------------------------------------------------------------- spec
\* The engine is checked in three settings.  All three run the three loops.

\* the ticks of the three loops that need no more than a few time units
LoopSteps ==
    \/ \E l \in Loops : LoopTop(l)
    \/ \E l \in Loops : FlagCheck(l)
    \/ \E l \in Loops : SleepEnd(l)
    \/ \E w \in ProbeResults : CheckActivity(w)
    \/ CheckActivitySet
    \/ \E l \in Loops : DbInsert(l)
    \/ SystemCommit

\* the captures, which need SCREENSHOT_INTERVAL_ACTIVE or VIDEO_INTERVAL to pass
CaptureSteps ==
    \/ CaptureOk
    \/ CaptureFail
    \/ ActivityCommit
    \/ RecordDone
    \/ RecordFail
    \/ VideoCommit

StoreFailSteps ==
    \/ \E l \in Loops : DbInsertFail(l)
    \/ \E l \in Loops : DbCommitFail(l)

\* Spec: sampling and capturing over long stretches of time, with captures and
\* store calls that fail; monitoring stays enabled and nobody shuts down
Next ==
    \/ LoopSteps
    \/ CaptureSteps
    \/ StoreFailSteps
    \/ Tick
    \/ \E d \in StallSteps : Advance(d)

Spec == Init /\ [][Next]_vars

\* SpecShutdown: the loops, the history query and shutdown()
NextShutdown ==
    \/ LoopSteps
    \/ StoreFailSteps
    \/ Tick
    \/ \E h \in Handlers : HistoryStart(h)
    \/ \E h \in Handlers : HistoryAcquire(h)
    \/ \E h \in Handlers : HistorySelect(h)
    \/ ShutdownSet
    \/ ShutdownClose

SpecShutdown == Init /\ [][NextShutdown]_vars

\* SpecFlag: the loops and toggle requests served by both handlers
NextFlag ==
    \/ LoopSteps
    \/ Tick
    \/ \E l \in Loops : BackoffEnd(l)
    \/ \E h \in Handlers : ToggleStart(h)
    \/ \E h \in Handlers : ToggleRead(h)
    \/ \E h \in Handlers : ToggleWrite(h)
    \/ \E h \in Handlers : ToggleRespond(h)

SpecFlag == Init /\ [][NextFlag]_vars


\* ---------------------------------------------------------------- scenarios
\* get_active_window() off Windows: the hardcoded pair
Sentinel == <<"Terminal", "bash">>

\* what a probe that always answers the same can answer
FixedProbes == ProbeResults \cup {Sentinel}

\* check_activity() with a probe that returns the same pair on every call: the
\* first call returns any pair, every later call the pair already stored
CheckActivityFixed ==
    \E w \in FixedProbes :
        /\ current_window \in {NoWindow, w}
        /\ CheckActivity(w)

\* Time passes by d, up to a limit, while every thread waits.
Elapse(d, limit) ==
    /\ Quiescent
    /\ \E l \in Loops : Sleeping(l)
    /\ now + d <= limit
    /\ now' = now + d
    /\ UNCHANGED <<advances, pc, wake, monitoring_lock, checked, ctlVars, flagVars,
                   storeVars, activityVars, videoVars>>

\* SpecScenario: the three loops second by second, with monitoring enabled, a
\* probe that always answers the same, and captures and store calls that succeed
NextScenario ==
    \/ \E l \in Loops : LoopTop(l)
    \/ \E l \in Loops : FlagCheck(l)
    \/ \E l \in Loops : SleepEnd(l)
    \/ CheckActivityFixed
    \/ CheckActivitySet
    \/ CaptureOk
    \/ \E l \in Loops : DbInsert(l)
    \/ ActivityCommit
    \/ SystemCommit
    \/ Elapse(ACTIVITY_SLEEP, MaxScenarioTime)

SpecScenario == Init /\ [][NextScenario]_vars


\* Time passes by d while every thread waits, at most n times in a run.
AdvanceUpTo(d, n) ==
    /\ Quiescent
    /\ \E l \in Loops : Sleeping(l)
    /\ advances < n
    /\ now' = now + d
    /\ advances' = advances + 1
    /\ UNCHANGED <<pc, wake, monitoring_lock, checked, ctlVars, flagVars,
                   storeVars, activityVars, videoVars>>

\* the stretches of time a clip needs: one tick, the clip, the wait for the next
VideoSteps == {VIDEO_SLEEP, VIDEO_DURATION, VIDEO_INTERVAL + 1}

\* SpecVideo: the loops with clips that succeed, the probe of the non-Windows
\* path, and toggle requests served by one handler
NextVideo ==
    \/ \E l \in Loops : LoopTop(l)
    \/ \E l \in Loops : FlagCheck(l)
    \/ \E l \in Loops : BackoffEnd(l)
    \/ \E l \in Loops : SleepEnd(l)
    \/ CheckActivity(Sentinel)
    \/ CheckActivitySet
    \/ \E l \in Loops : DbInsert(l)
    \/ SystemCommit
    \/ RecordDone
    \/ VideoCommit
    \/ ToggleStart("r1")
    \/ ToggleRead("r1")
    \/ ToggleWrite("r1")
    \/ ToggleRespond("r1")
    \/ \E d \in VideoSteps : AdvanceUpTo(d, MaxVideoAdvances)

SpecVideo == Init /\ [][NextVideo]_vars


\* SpecQuery: the loops and GET /data served by both handlers
NextQuery ==
    \/ LoopSteps
    \/ Tick
    \/ \E h \in Handlers : DataStart(h)
    \/ \E h \in Handlers : DataRead(h)

SpecQuery == Init /\ [][NextQuery]_vars


\* after the stop signal time goes on, second by second, as long as a loop sleeps
Drain ==
    /\ stop_event
    /\ Quiescent
    /\ \E l \in Loops : Sleeping(l)
    /\ now' = now + BACKOFF_SLEEP
    /\ UNCHANGED <<advances, pc, wake, monitoring_lock, checked, ctlVars, flagVars,
                   storeVars, activityVars, videoVars>>

\* what the loops, the flag, the store, shutdown() and the clock do
EngineSteps ==
    \/ LoopSteps
    \/ \E l \in Loops : BackoffEnd(l)
    \/ StoreFailSteps
    \/ ToggleStart("r1")
    \/ ToggleRead("r1")
    \/ ToggleWrite("r1")
    \/ ToggleRespond("r1")
    \/ ShutdownSet
    \/ ShutdownClose
    \/ Tick
    \/ Drain

\* GET /data, which the dashboard page requests every few seconds
DataSteps == DataStart("r2") \/ DataRead("r2")

\* SpecCancel: the loops (enabled, in their disabled backoff, or failing on the
\* store), shutdown(), and the server, which goes on serving GET /data.  No
\* thread that can run is left out for ever, and time goes on.
NextCancel ==
    \/ EngineSteps
    \/ DataSteps

SpecCancel ==
    Init /\ [][NextCancel]_vars /\ SF_vars(EngineSteps) /\ WF_vars(DataSteps)


\* ------------------------------------------------------------- starvation
\* One time unit passes while monitoring is disabled and every thread waits.
\* In this state no loop reads the clock for anything but its sleep, so the unit
\* is counted off the pending wake-ups and the run can go on for ever.
CountDown ==
    /\ ~monitoring_enabled
    /\ Quiescent
    /\ \E l \in Loops : Sleeping(l)
    /\ wake' = [l \in Loops |-> IF Sleeping(l) THEN wake[l] - BACKOFF_SLEEP ELSE wake[l]]
    /\ UNCHANGED <<pc, monitoring_lock, checked, timeVars, ctlVars, flagVars,
                   storeVars, activityVars, videoVars>>

\* the steps of the thread of loop l
LoopThread(l) ==
    \/ LoopTop(l)
    \/ FlagCheck(l)
    \/ BackoffEnd(l)
    \/ SleepEnd(l)
    \/ DbInsert(l)
    \/ l = "act" /\ ((\E w \in ProbeResults : CheckActivity(w)) \/ CheckActivitySet)
    \/ l = "sys" /\ SystemCommit

\* the steps of a handler that serves a toggle request it has accepted
ToggleThread(h) == ToggleRead(h) \/ ToggleWrite(h) \/ ToggleRespond(h)

\* SpecStarve: the loops and toggle requests, for as long as one likes while
\* monitoring is disabled.  Every thread that can run without interruption does
\* run, and time passes; threading.Lock promises no order among its waiters, so
\* a thread that can take a lock only now and then is promised nothing.
NextStarve ==
    \/ LoopSteps
    \/ \E l \in Loops : BackoffEnd(l)
    \/ \E h \in Handlers : ToggleStart(h)
    \/ \E h \in Handlers : ToggleRead(h)
    \/ \E h \in Handlers : ToggleWrite(h)
    \/ \E h \in Handlers : ToggleRespond(h)
    \/ Tick
    \/ CountDown

SpecStarve ==
    /\ Init
    /\ [][NextStarve]_vars
    /\ \A l \in Loops : WF_vars(LoopThread(l))
    /\ \A h \in Handlers : WF_vars(ToggleThread(h))
    /\ WF_vars(CountDown)


\* -------------------------------------------------------------------- locks
\* thread t waits in Lock.acquire() of a lock another thread holds
Blocked(t) ==
    \/ pc[t] \in {"lock", "t_lock"} /\ ~CanAcquire(monitoring_lock)
    \/ pc[t] \in {"db", "h_db"} /\ ~CanAcquire(db_lock)

\* SpecLocks: both locks in use at once: the loops with store calls that fail,
\* toggle requests served by one handler and history queries by the other
NextLocks ==
    \/ LoopSteps
    \/ \E l \in Loops : BackoffEnd(l)
    \/ StoreFailSteps
    \/ ToggleStart("r1")
    \/ ToggleRead("r1")
    \/ ToggleWrite("r1")
    \/ ToggleRespond("r1")
    \/ HistoryStart("r2")
    \/ HistoryAcquire("r2")
    \/ HistorySelect("r2")
    \/ Tick

SpecLocks == Init /\ [][NextLocks]_vars

\* ------------------------------------------------------------------- claims
\* a step of the activity loop that ends check_activity() and decides whether
\* the tick captures
ActivityDecides == pc["act"] \in {"probe", "setact"} /\ pc'["act"] \in {"capture", "sleep"}

\* the activity loop sleeps at the end of a tick that began at this instant
ActivityTickOver == pc["act"] = "sleep" /\ wake["act"] = now + ACTIVITY_SLEEP

\* C1 (as claimed): last_video changes only in a step that appended a VideoRecord;
\* a failed clip capture leaves it unchanged.
C1_LastVideoOnlyOnSuccess ==
    [][last_video' # last_video => committed'["videos"] > committed["videos"]]_vars

\* C2 (as claimed): once the store is closed no thread is inside a store
\* operation (inside `with self.db_lock`), and none enters one.
C2_NoStoreUseAfterClose == ~db_open => db_lock = NoHolder

\* C3: a failed screenshot capture writes no row and leaves last_screenshot
\* unchanged; last_screenshot changes only in the step of the activity loop that
\* committed a row; and every tick captures exactly when it is eligible (enabled,
\* inactive for less than INACTIVITY_THRESHOLD, SCREENSHOT_INTERVAL_ACTIVE since
\* last_screenshot), so the tick after a failure tries again.
C3_FailedCaptureRetried ==
    [][/\ (pc["act"] = "capture" /\ pc'["act"] = "sleep")
            => UNCHANGED <<last_screenshot, committed, pending>>
       /\ last_screenshot' # last_screenshot
            => /\ pc["act"] = "commit"
               /\ committed'["activities"] > committed["activities"]
       /\ ActivityDecides
            => (pc'["act"] = "capture"
                  <=> /\ now - last_activity' < INACTIVITY_THRESHOLD
                      /\ now - last_screenshot >= SCREENSHOT_INTERVAL_ACTIVE)]_vars

\* C3's case: a tick that was eligible has ended without a row and without
\* advancing last_screenshot (its capture failed), so the next tick is eligible
C3_Witness ==
    /\ ActivityTickOver
    /\ now - last_activity < INACTIVITY_THRESHOLD
    /\ now - last_screenshot >= SCREENSHOT_INTERVAL_ACTIVE
    /\ committed["activities"] = 0
    /\ pending["activities"] = 0

\* C4: a tick of the activity loop whose inactive_seconds is at least
\* INACTIVITY_THRESHOLD neither captures nor writes: the loop is capturing or
\* writing only in ticks with inactive_seconds below the threshold, and an
\* activities row is inserted only by such a tick.
C4_IdleSuppression ==
    [][/\ pc'["act"] \in {"capture", "db", "commit"}
            => tick_now' - last_activity' < INACTIVITY_THRESHOLD
       /\ (ActivityDecides /\ now - last_activity' >= INACTIVITY_THRESHOLD)
            => pc'["act"] = "sleep" /\ UNCHANGED <<committed, pending, last_screenshot>>
       /\ pending'["activities"] > pending["activities"]
            => pc["act"] = "db" /\ tick_now - last_activity < INACTIVITY_THRESHOLD]_vars

\* C4's case: an idle tick has ended although a screenshot was long due
C4_Witness ==
    /\ ActivityTickOver
    /\ now - last_activity >= INACTIVITY_THRESHOLD
    /\ now - last_screenshot >= SCREENSHOT_INTERVAL_ACTIVE

\* C5: check_activity() stores the observed identity and then the time exactly
\* when the observed identity differs from the stored one, whether or not the
\* tick goes on to capture; no other step changes current_window or last_activity.
C5_ActivityIffIdentityChanged ==
    [][/\ (pc["act"] = "probe" /\ pc'["act"] # "probe")
            => /\ observed' # current_window
                    <=> (pc'["act"] = "setact" /\ current_window' = observed')
               /\ observed' = current_window => current_window' = current_window
               /\ last_activity' = last_activity
       /\ (pc["act"] = "setact" /\ pc'["act"] # "setact")
            => last_activity' = now /\ current_window' = current_window
       /\ (pc["act"] \notin {"probe", "setact"} \/ pc'["act"] = pc["act"])
            => UNCHANGED <<current_window, last_activity>>]_vars

\* C5's case: a tick detected a transition some time after the start, reset the
\* inactivity clock and ended without capturing
C5_Witness ==
    /\ ActivityTickOver
    /\ now > 0
    /\ last_activity = now
    /\ now - last_screenshot < SCREENSHOT_INTERVAL_ACTIVE

\* C6: no toggle is lost and no read is torn: the flag is its initial value
\* (TRUE) flipped once per completed toggle, and the value a toggle read inside
\* its critical section is the value the flag still has when it writes.
C6_NoLostToggle ==
    /\ monitoring_enabled = (toggles_done % 2 = 0)
    /\ \A h \in Handlers : pc[h] = "t_write" => tmp[h] = monitoring_enabled

\* C6's case: two toggles have completed and a third request is inside its flip
\* or two were served at once
C6_Witness ==
    /\ toggles_done = 2
    /\ monitoring_enabled
    /\ \E h \in Handlers : pc[h] = "t_resp"

\* C7 (as claimed): the status a toggle request returns is the value its own
\* flip wrote.
C7_ToggleReturnsNewState ==
    [][\A h \in Handlers :
          (pc[h] = "t_resp" /\ pc'[h] = "idle") => Response = Status(flipped[h])]_vars

\* C8 (as claimed): a loop at its flag check never waits for another loop that
\* sleeps its backoff.
C8_FlagCheckNeverWaits ==
    \A l \in Loops : \A m \in Loops :
        pc[l] = "lock" => ~(monitoring_lock = m /\ pc[m] = "backoff")

\* one tick interval of a loop: its closing time.sleep
TickInterval(l) ==
    IF l = "act" THEN ACTIVITY_SLEEP ELSE IF l = "sys" THEN SYSTEM_SLEEP ELSE VIDEO_SLEEP

\* no toggle request is being served
NoToggleInProgress == \A h \in Handlers : pc[h] \notin {"t_lock", "t_write"}

\* C9 (as claimed): once the last toggle has completed, every running loop reads
\* the flag again within one tick interval of its own.
C9_BoundedStaleness ==
    \A l \in Loops :
        (toggles_done > 0 /\ NoToggleInProgress /\ ~checked[l] /\ pc[l] # "done")
            => now - toggle_done_at <= TickInterval(l)

\* C10: a tick whose flag check reads 'disabled' only starts the 1-unit backoff,
\* and the end of the backoff only goes back to the loop condition: neither
\* step touches a table, the probe, a capture or the activity state.
C10_DisabledTickTouchesNothing ==
    [][\A l \in Loops :
          /\ (pc[l] = "lock" /\ pc'[l] # "lock" /\ ~monitoring_enabled)
                => /\ pc'[l] = "backoff"
                   /\ wake'[l] = now + BACKOFF_SLEEP
                   /\ UNCHANGED <<storeVars, activityVars, videoVars>>
          /\ (pc[l] = "backoff" /\ pc'[l] # "backoff")
                => /\ pc'[l] \in {"lock", "done"}
                   /\ UNCHANGED <<storeVars, activityVars, videoVars>>]_vars

\* C10's case: after the only toggle (which disabled monitoring) a loop has read
\* the flag, slept its backoff and is back at its flag check
C10_Witness ==
    \E l \in Loops :
        /\ toggles_done = 1
        /\ ~monitoring_enabled
        /\ checked[l]
        /\ pc[l] = "lock"

\* C11: with one window change at t=0 and none afterwards, monitoring enabled,
\* captures succeeding and one activity tick per second, the ticks before
\* t = SCREENSHOT_INTERVAL_ACTIVE write no activities row, the tick at
\* t = SCREENSHOT_INTERVAL_ACTIVE writes exactly one, and no later tick (t=70
\* included: inactive for 70 >= INACTIVITY_THRESHOLD) writes another.
C11_ScreenshotSchedule ==
    /\ now < SCREENSHOT_INTERVAL_ACTIVE
         => committed["activities"] = 0 /\ pending["activities"] = 0
    /\ (now >= SCREENSHOT_INTERVAL_ACTIVE /\ ActivityTickOver)
         => committed["activities"] = 1 /\ pending["activities"] = 0
    /\ committed["activities"] + pending["activities"] <= 1

\* C11's case: the tick at t=70 is over, 40 units after the only screenshot
C11_Witness ==
    /\ ActivityTickOver
    /\ now = 70
    /\ now - last_activity = 70
    /\ now - last_screenshot = 40
    /\ committed["activities"] = 1

\* C12: a toggle does not touch a clip in progress: the recording ends only when
\* its VIDEO_DURATION is over, whatever the flag is by then, and goes on to
\* the insert and the commit of its videos row; and the video loop starts a
\* recording only in a tick whose flag check read 'enabled'.
C12_ToggleDuringCapture ==
    [][/\ monitoring_enabled' # monitoring_enabled
            => pc'["vid"] = pc["vid"] /\ wake'["vid"] = wake["vid"]
       /\ (pc["vid"] = "rec" /\ pc'["vid"] # "rec")
            => pc'["vid"] = "db" /\ now >= wake["vid"]
       /\ (pc["vid"] = "db" /\ pc'["vid"] # "db")
            => pc'["vid"] = "commit" /\ pending'["videos"] = pending["videos"] + 1
       /\ (pc["vid"] = "commit" /\ pc'["vid"] # "commit")
            => committed'["videos"] = committed["videos"] + 1
       /\ (pc["vid"] # "rec" /\ pc'["vid"] = "rec")
            => pc["vid"] = "lock" /\ monitoring_enabled]_vars

\* C12's case: monitoring was toggled off during the recording, the clip's row
\* is committed, and the next tick of the video loop is in its disabled backoff
C12_Witness ==
    /\ ~monitoring_enabled
    /\ toggles_done = 1
    /\ toggle_done_at < last_video
    /\ toggle_done_at >= last_video - VIDEO_DURATION
    /\ committed["videos"] = 1
    /\ pc["vid"] = "backoff"

\* C13 (as claimed): no read of the query surface takes place while the activity
\* state is half updated (new window identity, last_activity of the previous one).
C13_NoHalfUpdatedRead ==
    [][\A h \in Handlers : (pc[h] = "d_read" /\ pc'[h] = "idle") => ~HalfUpdated]_vars

\* C14 (as claimed): once the stop signal is raised, the three loops and the
\* server task all eventually exit.
C14_AllTasksExit ==
    stop_event ~> (pc[Server] = "done" /\ \A l \in Loops : pc[l] = "done")

\* C15 (as claimed): the insert and the commit of an append happen in one
\* critical section, so a task that holds the store lock finds no uncommitted
\* row of another task, and at most one of its own.
C15_NoForeignUncommittedRow ==
    \A l \in Loops :
        db_lock = l =>
            /\ pending[TableOf(l)] <= 1
            /\ \A t \in Tables \ {TableOf(l)} : pending[t] = 0

\* C16: a videos row is inserted only by the video loop, after its recording
\* ran for the whole VIDEO_DURATION and the file was released; a recording that
\* fails ends the cycle with no row inserted or committed.
C16_VideoRowOnlyAfterEncode ==
    [][/\ pending'["videos"] > pending["videos"] => pc["vid"] = "db"
       /\ (pc["vid"] # "db" /\ pc'["vid"] = "db")
            => pc["vid"] = "rec" /\ now >= wake["vid"]
       /\ (pc["vid"] = "rec" /\ pc'["vid"] \notin {"rec", "db"})
            => pc'["vid"] = "sleep" /\ UNCHANGED <<committed, pending>>]_vars

\* C16's case: a clip was due, its recording failed, and the cycle is over with no
\* videos row
C16_Witness ==
    /\ pc["vid"] = "sleep"
    /\ now > VIDEO_INTERVAL
    /\ last_video = now
    /\ faults = 0
    /\ committed["videos"] = 0
    /\ pending["videos"] = 0

\* loop l's capture or store call fails in this step
FailStep(l) ==
    \/ l = "act" /\ pc[l] = "capture" /\ pc'[l] = "sleep"
    \/ l = "vid" /\ pc[l] = "rec" /\ pc'[l] \notin {"rec", "db"}
    \/ pc[l] = "db" /\ pc'[l] \notin {"db", "commit"}
    \/ pc[l] = "commit" /\ pc'[l] # "commit" /\ committed' = committed

\* C17: a failed capture or store call ends no loop: the loop that failed goes
\* to its next tick (its sleep, or its loop condition) holding no lock, the other
\* loops are left where they are, no loop ever ends while no stop is raised, and
\* whenever time passes every loop has finished its tick and sleeps.
C17_FailureIsolation ==
    [][/\ \A l \in Loops :
            FailStep(l) =>
                /\ pc'[l] \in {"lock", "sleep"}
                /\ db_lock' # l
                /\ monitoring_lock' # l
                /\ \A m \in Loops \ {l} : pc'[m] = pc[m] /\ wake'[m] = wake[m]
       /\ \A l \in Loops : pc'[l] # "done"
       /\ Quiescent' => \A l \in Loops : Sleeping(l)']_vars

\* C17's case: a clip was due and produced no row (its capture or its store call
\* failed), and in the same instant the metrics loop committed its second row
C17_Witness ==
    /\ now > VIDEO_INTERVAL
    /\ last_video = now
    /\ committed["videos"] = 0
    /\ pc["sys"] = "sleep"
    /\ wake["sys"] = now + SYSTEM_SLEEP
    /\ committed["metrics"] >= 2

\* C20: a loop holds the store lock exactly between its insert and its commit:
\* never while it probes, captures or records, which are over by then.
C20_StoreLockOnlyAroundWrite ==
    /\ db_lock \in Loops \cup {NoHolder}
    /\ \A l \in Loops : db_lock = l <=> pc[l] = "commit"

\* C20's case: the video loop holds the store lock, its recording of
\* VIDEO_DURATION over, while the activity tick of the same instant is still
\* running
C20_Witness ==
    /\ db_lock = "vid"
    /\ pc["vid"] = "commit"
    /\ now >= last_video + VIDEO_INTERVAL + VIDEO_DURATION
    /\ pc["act"] \in {"probe", "setact", "capture", "db"}

\* C18 (as claimed): with a probe that returns the same pair on every call,
\* check_activity never detects a transition, and no activities row is inserted
\* INACTIVITY_THRESHOLD or more after the start.
C18_NoTransitionEver ==
    /\ pc["act"] # "setact"
    /\ pending["activities"] > 0 => now < INACTIVITY_THRESHOLD

\* C18 (amended): with such a probe the first call of check_activity, and only
\* the first, detects a transition (from the initial ("", "")) and sets
\* last_activity to the time of that first tick; afterwards last_activity never
\* changes, and no activities row is inserted INACTIVITY_THRESHOLD or more
\* after that first tick.
C18_OnlyInitialTransition ==
    [][/\ (pc["act"] = "probe" /\ pc'["act"] # "probe")
            => (pc'["act"] = "setact" <=> current_window = NoWindow)
       /\ last_activity' # last_activity
            => pc["act"] = "setact" /\ last_screenshot = 0
       /\ pending'["activities"] > pending["activities"]
            => now - last_activity < INACTIVITY_THRESHOLD]_vars

\* C18's case: ticks later than INACTIVITY_THRESHOLD after the first one have
\* run, a screenshot long due, and the only row is the one of t = 30
C18_Witness ==
    /\ ActivityTickOver
    /\ current_window # NoWindow
    /\ now - last_activity > INACTIVITY_THRESHOLD
    /\ now - last_screenshot > SCREENSHOT_INTERVAL_ACTIVE
    /\ committed["activities"] = 1

\* C19 (as claimed): with the hardcoded probe, monitoring enabled and captures
\* succeeding, an activities row is written every SCREENSHOT_INTERVAL_ACTIVE,
\* however long it is since the last transition.
C19_ScreenshotsForever ==
    (ActivityTickOver /\ current_window = Sentinel)
        => committed["activities"] = now \div SCREENSHOT_INTERVAL_ACTIVE

\* C21 (as claimed): a toggle request that waits for the flag lock eventually
\* gets it and flips the flag, also while monitoring is disabled and the loops
\* take the lock in turn for their backoff.
C21_ToggleEventuallyApplied ==
    \A h \in Handlers : (pc[h] = "t_lock") ~> (pc[h] = "t_write")

\* C22: no thread holds the flag lock and the store lock at once; a lock is held
\* only inside its with block (the backoff or the flip for the flag lock, the
\* insert/commit or the select for the store lock), error paths included; and
\* a thread that waits for a lock waits for a holder that is not itself waiting
\* for a lock, so the threads are never all blocked.
C22_NoLockDeadlock ==
    /\ \A t \in Threads : ~(monitoring_lock = t /\ db_lock = t)
    /\ \A t \in Threads : monitoring_lock = t => pc[t] \in {"backoff", "t_write"}
    /\ \A t \in Threads : db_lock = t => pc[t] \in {"commit", "h_select"}
    /\ monitoring_lock \in Threads \cup {NoHolder}
    /\ db_lock \in Threads \cup {NoHolder}
    /\ \A t \in Threads :
          (pc[t] \in {"lock", "t_lock"} /\ ~CanAcquire(monitoring_lock))
              => monitoring_lock \in Threads \ {t} /\ ~Blocked(monitoring_lock)
    /\ \A t \in Threads :
          (pc[t] \in {"db", "h_db"} /\ ~CanAcquire(db_lock))
              => db_lock \in Threads \ {t} /\ ~Blocked(db_lock)

\* C22's case: both locks are held, by different threads, after a store call has
\* failed, and a third thread waits for one of them
C22_Witness ==
    /\ monitoring_lock # NoHolder
    /\ db_lock # NoHolder
    /\ faults > 0
    /\ \E t \in Threads : Blocked(t)

=============================================================================
